---- MODULE Spec2Model ----
(***************************************************************************)
(* A model of trybuild's per-test execution (src/run.rs) and of its        *)
(* diagnostic normalization (src/normalize.rs).                            *)
(*                                                                         *)
(* Text is a sequence of one-character strings, so that prefixes,          *)
(* substrings, line endings and replacements are computed character by     *)
(* character as the Rust code computes them.  All text of the model is     *)
(* ASCII: String::from_utf8_lossy is the identity on it.                   *)
(***************************************************************************)
EXTENDS Integers, Sequences, FiniteSets, TLC

(***************************************************************************)
(* String literals of src/normalize.rs.                                    *)
(***************************************************************************)
\* The character ` (not writable in a string of this notation).
BACKTICK == "backtick"

ARROW ==
    <<"-", "-", ">", " ">>
COLONS ==
    <<":", ":", ":", " ">>
DIR_SLASH ==
    <<"$", "D", "I", "R", "/">>
DIR_TOKEN ==
    <<"$", "D", "I", "R">>
CRATE_TOKEN ==
    <<"$", "C", "R", "A", "T", "E">>
WORKSPACE_TOKEN ==
    <<"$", "W", "O", "R", "K", "S", "P", "A", "C", "E">>
RUST_TOKEN ==
    <<"$", "R", "U", "S", "T">>
RUSTLIB_SRC ==
    <<"/", "r", "u", "s", "t", "l", "i", "b", "/", "s", "r", "c", "/", "r",
      "u", "s", "t", "/", "s", "r", "c", "/">>
\* A variant of ABORTING: another wording.
ABORTED ==
    <<"e", "r", "r", "o", "r", ":", " ", "a", "b", "o", "r", "t", "e", "d",
      " ", "a", "f", "t", "e", "r", " ">>
ABORTING ==
    <<"e", "r", "r", "o", "r", ":", " ", "a", "b", "o", "r", "t", "i", "n",
      "g", " ", "d", "u", "e", " ", "t", "o", " ">>
TO_LEARN_MORE ==
    <<"T", "o", " ", "l", "e", "a", "r", "n", " ", "m", "o", "r", "e", ",",
      " ", "r", "u", "n", " ", "t", "h", "e", " ", "c", "o", "m", "m", "a",
      "n", "d", " ", "a", "g", "a", "i", "n", " ", "w", "i", "t", "h", " ",
      "-", "-", "v", "e", "r", "b", "o", "s", "e", ".">>
COULD_NOT_COMPILE ==
    <<"e", "r", "r", "o", "r", ":", " ", "C", "o", "u", "l", "d", " ", "n",
      "o", "t", " ", "c", "o", "m", "p", "i", "l", "e", " ", BACKTICK>>
COULD_NOT_COMPILE2 ==
    <<"e", "r", "r", "o", "r", ":", " ", "c", "o", "u", "l", "d", " ", "n",
      "o", "t", " ", "c", "o", "m", "p", "i", "l", "e", " ", BACKTICK>>
FOR_MORE_INFORMATION ==
    <<"F", "o", "r", " ", "m", "o", "r", "e", " ", "i", "n", "f", "o", "r",
      "m", "a", "t", "i", "o", "n", " ", "a", "b", "o", "u", "t", " ", "t",
      "h", "i", "s", " ", "e", "r", "r", "o", "r", ",", " ", "t", "r", "y",
      " ", BACKTICK, "r", "u", "s", "t", "c", " ", "-", "-", "e", "x", "p", "l",
      "a", "i", "n">>
SOME_ERRORS ==
    <<"S", "o", "m", "e", " ", "e", "r", "r", "o", "r", "s", " ", "h", "a",
      "v", "e", " ", "d", "e", "t", "a", "i", "l", "e", "d", " ", "e", "x",
      "p", "l", "a", "n", "a", "t", "i", "o", "n", "s", ":">>
FOR_MORE_INFORMATION2 ==
    <<"F", "o", "r", " ", "m", "o", "r", "e", " ", "i", "n", "f", "o", "r",
      "m", "a", "t", "i", "o", "n", " ", "a", "b", "o", "u", "t", " ", "a",
      "n", " ", "e", "r", "r", "o", "r", ",", " ", "t", "r", "y", " ", BACKTICK,
      "r", "u", "s", "t", "c", " ", "-", "-", "e", "x", "p", "l", "a", "i",
      "n">>

(***************************************************************************)
(* The operations of Rust's str that the code uses.  Positions are         *)
(* 1-based here and 0-based in Rust; 0 stands for None where Rust's find   *)
(* returns Option<usize>.                                                  *)
(***************************************************************************)
WHITE_SPACE == {" ", "\t", "\n", "\r"}

Tail_from(s, i) == SubSeq(s, i, Len(s))

starts_with(s, pat) == Len(pat) <= Len(s) /\ SubSeq(s, 1, Len(pat)) = pat

ends_with(s, pat) ==
    Len(pat) <= Len(s) /\ SubSeq(s, Len(s) - Len(pat) + 1, Len(s)) = pat

\* str::find: the position of the first match of pat, 0 if there is none.
find(s, pat) ==
    LET hits == {i \in 1..(Len(s) - Len(pat) + 1) :
                    SubSeq(s, i, i + Len(pat) - 1) = pat}
    IN IF hits = {} THEN 0 ELSE CHOOSE i \in hits : \A j \in hits : i <= j

\* A variant of rfind_separator: the position of the first path separator.
find_separator(s) ==
    LET hits == {i \in 1..Len(s) : s[i] \in {"/", "\\"}}
    IN IF hits = {} THEN 0 ELSE CHOOSE i \in hits : \A j \in hits : i <= j

\* str::rfind(&['/', '\\'][..]): the position of the last path separator.
rfind_separator(s) ==
    LET hits == {i \in 1..Len(s) : s[i] \in {"/", "\\"}}
    IN IF hits = {} THEN 0 ELSE CHOOSE i \in hits : \A j \in hits : j <= i

\* str::trim_end and str::trim_start.
trim_end(s) ==
    LET keep == {i \in 1..Len(s) : s[i] \notin WHITE_SPACE}
    IN IF keep = {} THEN <<>>
       ELSE SubSeq(s, 1, CHOOSE i \in keep : \A j \in keep : j <= i)

trim_start(s) ==
    LET keep == {i \in 1..Len(s) : s[i] \notin WHITE_SPACE}
    IN IF keep = {} THEN <<>>
       ELSE Tail_from(s, CHOOSE i \in keep : \A j \in keep : i <= j)

\* str::replace(from, to) for a non-empty pattern: every non-overlapping
\* match, left to right.  (The code never passes an empty pattern: line 182
\* appends a backslash, smart_replace returns first, line 130 is a char.)
RECURSIVE replace(_, _, _)
replace(s, from, to) ==
    LET at == find(s, from)
    IN IF at = 0 THEN s
       ELSE SubSeq(s, 1, at - 1) \o to
            \o replace(Tail_from(s, at + Len(from)), from, to)

\* str::lines: split after every "\n"; a line loses its "\n" and then one
\* "\r" before it; the last line needs no "\n".
RECURSIVE lines(_)
lines(s) ==
    IF s = <<>> THEN <<>>
    ELSE LET nl == find(s, <<"\n">>)
         IN IF nl = 0 THEN <<s>>
            ELSE LET line == SubSeq(s, 1, nl - 1)
                 IN <<IF ends_with(line, <<"\r">>)
                      THEN SubSeq(line, 1, Len(line) - 1) ELSE line>>
                    \o lines(Tail_from(s, nl + 1))

(***************************************************************************)
(* src/normalize.rs                                                        *)
(***************************************************************************)
Basic == 0
StripCouldNotCompile == 1
StripCouldNotCompile2 == 2
StripForMoreInformation == 3
StripForMoreInformation2 == 4
DirBackslash == 5
TrimEnd == 6
RustLib == 7

\* A variant of VARIATIONS with two levels out of order.
VARIATIONS_unordered ==
    <<Basic, StripCouldNotCompile2, StripCouldNotCompile,
      StripForMoreInformation, StripForMoreInformation2, DirBackslash,
      TrimEnd, RustLib>>

VARIATIONS ==
    <<Basic, StripCouldNotCompile, StripCouldNotCompile2,
      StripForMoreInformation, StripForMoreInformation2, DirBackslash,
      TrimEnd, RustLib>>

\* Context: the crate name of the test, the source directory and the
\* workspace directory of the project.
Context(krate, source_dir, workspace) ==
    [krate |-> krate, source_dir |-> source_dir, workspace |-> workspace]

\* Option<String>: None is the empty tuple, Some(x) the tuple of x.
None == <<>>
Some(x) == <<x>>

\* A variant of trim that leaves the output as it is.
trim_nothing(output) == output

trim(output) ==
    LET normalized == trim_end(output)
    IN IF normalized /= <<>> THEN normalized \o <<"\n">> ELSE normalized

\* A variant of smart_replace that puts the replacement in front of the text
\* when the pattern is empty.
smart_replace_inserts(s, from, to) ==
    IF from = <<>> THEN to \o s ELSE replace(s, from, to)

smart_replace(s, from, to) ==
    IF from = <<>> THEN s ELSE replace(s, from, to)

filter(line, normalization, context) ==
    IF /\ starts_with(trim_start(line), ARROW)
       /\ rfind_separator(line) /= 0
    THEN LET cut_end == rfind_separator(line)
             cut_start == find(line, <<">">>) + 1
         IN Some(SubSeq(line, 1, cut_start) \o DIR_SLASH
                 \o Tail_from(line, cut_end + 1))
    ELSE IF starts_with(trim_start(line), COLONS)
    THEN LET line1 == replace(
                 smart_replace(line, context.workspace, WORKSPACE_TOKEN),
                 <<"\\">>, <<"/">>)
             pos == find(line1, RUSTLIB_SRC)
         IN IF normalization >= RustLib /\ pos /= 0
            THEN Some(SubSeq(line1, 1, find(line1, COLONS) + 3) \o RUST_TOKEN
                      \o Tail_from(line1, pos + 17))
            ELSE Some(line1)
    ELSE IF starts_with(line, ABORTING) THEN None
    ELSE IF line = TO_LEARN_MORE THEN None
    ELSE IF /\ normalization >= StripCouldNotCompile
            /\ starts_with(line, COULD_NOT_COMPILE) THEN None
    ELSE IF /\ normalization >= StripCouldNotCompile2
            /\ starts_with(line, COULD_NOT_COMPILE2) THEN None
    ELSE IF /\ normalization >= StripForMoreInformation
            /\ starts_with(line, FOR_MORE_INFORMATION) THEN None
    ELSE IF /\ normalization >= StripForMoreInformation2
            /\ \/ starts_with(line, SOME_ERRORS)
               \/ starts_with(line, FOR_MORE_INFORMATION2) THEN None
    ELSE LET line1 == IF /\ normalization >= DirBackslash
                         /\ context.source_dir /= <<>>
                      THEN replace(line, context.source_dir \o <<"\\">>,
                                   DIR_SLASH)
                      ELSE line
             line2 == IF normalization >= TrimEnd THEN trim_end(line1)
                      ELSE line1
         IN Some(smart_replace(
                   smart_replace(
                     smart_replace(line2, context.krate, CRATE_TOKEN),
                     context.source_dir, DIR_TOKEN),
                   context.workspace, WORKSPACE_TOKEN))

\* The loop of apply over the lines not yet seen; normalized is the text
\* built so far.
RECURSIVE apply_lines(_, _, _, _)
apply_lines(rest, normalized, normalization, context) ==
    IF rest = <<>> THEN normalized
    ELSE LET kept == filter(Head(rest), normalization, context)
             pushed == IF kept = None THEN normalized
                       ELSE LET n1 == normalized \o kept[1]
                            IN IF ends_with(n1, <<"\n", "\n">>) THEN n1
                               ELSE n1 \o <<"\n">>
         IN apply_lines(Tail(rest), pushed, normalization, context)

apply(original, normalization, context) ==
    trim(apply_lines(lines(original), <<>>, normalization, context))

\* The variations of a compiler output, in the order of VARIATIONS.
Variations(output, context) ==
    [n \in 1..Len(VARIATIONS) |-> apply(output, VARIATIONS[n], context)]

\* A variant of preferred that takes the first variation.
preferred_first(variations) == variations[1]

\* The preferred variation: the last one.
preferred(variations) == variations[Len(variations)]

diagnostics(output, context) == preferred(Variations(output, context))

\* A variant of matches that compares with the preferred variation only.
matches_preferred(variations, expected) ==
    variations[Len(variations)] = expected

\* The saved text is a match when it is identical to one of the variations.
matches(variations, expected) ==
    \E n \in 1..Len(variations) : variations[n] = expected

(***************************************************************************)
(* String literals of src/run.rs.                                          *)
(***************************************************************************)
TRYBUILD ==
    <<"t", "r", "y", "b", "u", "i", "l", "d">>
DIGITS ==
    <<"0", "1", "2", "3", "4", "5", "6", "7", "8", "9">>
STDERR_EXT ==
    <<"s", "t", "d", "e", "r", "r">>
WIP_DIR ==
    <<"w", "i", "p">>
GITIGNORE_NAME ==
    <<".", "g", "i", "t", "i", "g", "n", "o", "r", "e">>
GITIGNORE_TEXT ==
    <<"*", "\n">>

(***************************************************************************)
(* src/run.rs: paths, test specs and tests.                                *)
(*                                                                         *)
(* A path is a directory, a file stem and an extension; its text is        *)
(* dir/stem.ext.  Path::with_extension, Path::file_name and Path::join     *)
(* act on these parts.                                                     *)
(***************************************************************************)
Path(dir, stem, ext) == [dir |-> dir, stem |-> stem, ext |-> ext]

\* Path::to_str / to_string_lossy.
to_str(path) ==
    path.dir \o <<"/">> \o path.stem
    \o (IF path.ext = <<>> THEN <<>> ELSE <<".">> \o path.ext)

with_extension(path, ext) == [path EXCEPT !.ext = ext]

file_name(path) == [stem |-> path.stem, ext |-> path.ext]

join(dir, name) == Path(dir, name.stem, name.ext)

\* str::contains.
contains(s, pat) == find(s, pat) /= 0

\* Expected::Pass and Expected::CompileFail.
Pass == "Pass"
CompileFail == "CompileFail"

TestSpec(path, expected) == [path |-> path, expected |-> expected]

\* struct Test: error is None or Some(error).
Test(name, spec, error) == [name |-> name, spec |-> spec, error |-> error]

\* Update::Wip and Update::Overwrite.
Wip == "Wip"
Overwrite == "Overwrite"

\* format!("{}", i) and bin_name: "trybuild" and i in at least 3 digits.
RECURSIVE decimal(_)
decimal(i) ==
    IF i < 10 THEN <<DIGITS[i + 1]>>
    ELSE decimal(i \div 10) \o <<DIGITS[(i % 10) + 1]>>

bin_name(i) ==
    LET digits == decimal(i)
    IN TRYBUILD
       \o (IF Len(digits) = 1 THEN <<"0", "0">>
           ELSE IF Len(digits) = 2 THEN <<"0">> ELSE <<>>)
       \o digits

(***************************************************************************)
(* Texts of the environment: command-line arguments, the order of the      *)
(* characters, the directories of the project, compiler outputs and a      *)
(* saved expectation.                                                      *)
(***************************************************************************)
PREFIX ==
    <<"t", "r", "y", "b", "u", "i", "l", "d", "=">>
ASCII_ORDER ==
    <<"*", "-", ".", "/", "0", "1", "2", "3", "4", "5", "6", "7", "8", "9",
      "=", "_", "a", "b", "c", "d", "e", "f", "g", "h", "i", "j", "k", "l",
      "m", "n", "o", "p", "q", "r", "s", "t", "u", "v", "w", "x", "y", "z">>
SOURCE_DIR ==
    <<"/", "w", "/", "c">>
WORKSPACE ==
    <<"/", "w">>
RAW_ERROR ==
    <<"e", "r", "r", "o", "r", ":", " ", "E", "0", " ", "\n", " ", "-", "-",
      ">", " ", "/", "w", "/", "c", "/", "t", "/", "a", ".", "r", "s", ":",
      "1", ":", "1", "\n", "e", "r", "r", "o", "r", ":", " ", "c", "o", "u",
      "l", "d", " ", "n", "o", "t", " ", "c", "o", "m", "p", "i", "l", "e",
      " ", BACKTICK, "t", "r", "y", "b", "u", "i", "l", "d", "0", "0", "0", BACKTICK,
      "\n">>
RAW_CRLF ==
    <<"-", "-", ">", " ", "s", "r", "c", "\\", "a", ".", "r", "s", "\r",
      "\r", "\n", "e", "r", "r", "o", "r", ":", " ", "E", "1", "\r", "\n">>
RAW_WARNING ==
    <<"w", "a", "r", "n", "i", "n", "g", ":", " ", "u", "n", "u", "s", "e",
      "d", "\n">>
OLD_TEXT ==
    <<"e", "r", "r", "o", "r", ":", " ", "o", "l", "d", "\n">>
ARG_TEST_NAME ==
    <<"u", "i">>
ARG_FILTER_B ==
    <<"t", "r", "y", "b", "u", "i", "l", "d", "=", "b", ".", "r", "s">>

(***************************************************************************)
(* The environment of a run: the source files on disk, the command line,   *)
(* the project directories, what the compiler and the test binaries print, *)
(* and the expectation files saved by earlier runs.                        *)
(***************************************************************************)
RS == <<"r", "s">>
T_A_RS == Path(<<"t">>, <<"a">>, RS)
T_B_RS == Path(<<"t">>, <<"b">>, RS)
T_M_RS == Path(<<"t">>, <<"m">>, RS)
T_STAR_RS == Path(<<"t">>, <<"*">>, RS)
T_STARS_RS == Path(<<"t">>, <<"*", "*", "a">>, RS)
T_NONE_RS == Path(<<"u">>, <<"*">>, RS)
T_V_A_RS == Path(<<"v">>, <<"a">>, RS)
T_ANY_A_RS == Path(<<"*">>, <<"a">>, RS)

\* The source files that exist (t/m.rs does not); two of them have the same
\* file name in different directories.
SOURCE_FILES == {T_A_RS, T_B_RS, T_V_A_RS}

\* The directories that exist before the first run.
SOURCE_DIRS == {<<"t">>, <<"v">>}

\* The test specs a test function may declare.
DECLARABLE ==
    {TestSpec(T_A_RS, CompileFail), TestSpec(T_B_RS, Pass),
     TestSpec(T_M_RS, Pass), TestSpec(T_STAR_RS, CompileFail),
     TestSpec(T_STARS_RS, Pass), TestSpec(T_NONE_RS, CompileFail)}

\* Test specs of source files that have the same file name in two
\* directories, and a test to run.
SAME_NAMED ==
    {TestSpec(T_ANY_A_RS, CompileFail), TestSpec(T_A_RS, CompileFail),
     TestSpec(T_V_A_RS, CompileFail), TestSpec(T_B_RS, Pass)}

\* The command lines: no filter, or the filter "b.rs".
COMMAND_LINES == {<<ARG_TEST_NAME>>, <<ARG_TEST_NAME, ARG_FILTER_B>>}

\* Output of a build: exit status, stdout, stderr.
BUILD_OUTPUTS ==
    {[success |-> TRUE, stdout |-> <<"w">>, stderr |-> RAW_WARNING],
     [success |-> FALSE, stdout |-> <<>>, stderr |-> RAW_ERROR],
     [success |-> FALSE, stdout |-> <<"w">>, stderr |-> RAW_CRLF]}

\* Output of a test binary: exit status and stdout.
RUN_OUTPUTS ==
    {[success |-> TRUE, stdout |-> <<"o">>],
     [success |-> FALSE, stdout |-> <<"o">>]}

\* The texts an expectation file may hold before the first run: a variation
\* of RAW_ERROR below the preferred one, saved with CRLF line endings, and a
\* text no compiler output of the model normalizes to.
SAVED_TEXTS ==
    {replace(apply(RAW_ERROR, StripCouldNotCompile2,
                   Context(bin_name(0), SOURCE_DIR, WORKSPACE)),
             <<"\n">>, <<"\r", "\n">>),
     OLD_TEXT}

(***************************************************************************)
(* The file system: fs.files maps a path to None or Some(contents),        *)
(* fs.dirs is the set of directories.  An operation that can fail yields   *)
(* the set of its possible outcomes.                                       *)
(***************************************************************************)
GITIGNORE == Path(WIP_DIR, GITIGNORE_NAME, <<>>)

stderr_paths == {with_extension(p, STDERR_EXT) : p \in SOURCE_FILES}

FILE_PATHS ==
    stderr_paths \cup {join(WIP_DIR, file_name(p)) : p \in stderr_paths}
    \cup {GITIGNORE}

\* Path::exists of an expectation file.
exists(fs, path) == fs.files[path] /= None

\* fs::create_dir_all: Ok and the directory exists, or an io::Error.
create_dir_all(fs, dir) ==
    {[ok |-> TRUE, fs |-> [fs EXCEPT !.dirs = @ \cup {dir}]],
     [ok |-> FALSE, fs |-> fs]}

\* fs::write: Ok and the file holds the contents; or an io::Error, with the
\* file as it was (it could not be opened) or created empty (it was opened
\* and truncated, and the write failed).
write(fs, path, contents) ==
    IF path.dir \notin fs.dirs THEN {[ok |-> FALSE, fs |-> fs]}
    ELSE {[ok |-> TRUE, fs |-> [fs EXCEPT !.files[path] = Some(contents)]],
          [ok |-> FALSE, fs |-> fs],
          [ok |-> FALSE, fs |-> [fs EXCEPT !.files[path] = Some(<<>>)]]}

\* fs::read_to_string: the contents, or an io::Error.
read_to_string(fs, path) ==
    {[ok |-> FALSE, text |-> <<>>]}
    \cup (IF fs.files[path] = None THEN {}
          ELSE {[ok |-> TRUE, text |-> fs.files[path][1]]})

(***************************************************************************)
(* expand_globs and filter.                                                *)
(***************************************************************************)
ord(c) == CHOOSE i \in 1..Len(ASCII_ORDER) : ASCII_ORDER[i] = c

RECURSIVE str_lt(_, _)
str_lt(a, b) ==
    IF b = <<>> THEN FALSE
    ELSE IF a = <<>> THEN TRUE
    ELSE IF a[1] = b[1] THEN str_lt(Tail(a), Tail(b))
    ELSE ord(a[1]) < ord(b[1])

\* Ord for PathBuf: component by component.
path_lt(p, q) ==
    IF p.dir /= q.dir THEN str_lt(p.dir, q.dir)
    ELSE str_lt(to_str(Path(<<>>, p.stem, p.ext)),
                to_str(Path(<<>>, q.stem, q.ext)))

\* Vec::sort of a vector of distinct paths.
RECURSIVE sort(_)
sort(paths) ==
    IF paths = {} THEN <<>>
    ELSE LET least == CHOOSE p \in paths :
                          \A q \in paths \ {p} : path_lt(p, q)
         IN <<least>> \o sort(paths \ {least})

\* glob::glob on the files of the model: a component "*" of the pattern
\* matches every directory or every file stem, another component matches
\* itself; a pattern in which "**" is not a whole component is a
\* PatternError.
glob_entries(pattern) ==
    IF contains(pattern.stem, <<"*", "*">>)
    THEN [ok |-> FALSE, paths |-> {}]
    ELSE [ok |-> TRUE,
          paths |-> {f \in SOURCE_FILES :
                        /\ pattern.dir \in {<<"*">>, f.dir}
                        /\ pattern.stem \in {<<"*">>, f.stem}
                        /\ f.ext = pattern.ext}]

\* fn glob: the sorted paths, or the error.
glob(pattern) ==
    LET entries == glob_entries(pattern)
    IN IF entries.ok THEN [ok |-> TRUE, paths |-> sort(entries.paths)]
       ELSE [ok |-> FALSE, paths |-> <<>>]

\* A variant of push_paths that names every test of a glob by the length of
\* the list before the glob.
push_paths_one_name(paths, expected, vec) ==
    vec \o [i \in 1..Len(paths) |->
              Test(bin_name(Len(vec)), TestSpec(paths[i], expected), None)]

\* The inner loop of expand_globs: one test per path of a glob.
RECURSIVE push_paths(_, _, _)
push_paths(paths, expected, vec) ==
    IF paths = <<>> THEN vec
    ELSE push_paths(Tail(paths), expected,
                    Append(vec, Test(bin_name(Len(vec)),
                                     TestSpec(Head(paths), expected), None)))

\* The outer loop of expand_globs over the specs not yet expanded.
RECURSIVE expand_globs_loop(_, _)
expand_globs_loop(rest, vec) ==
    IF rest = <<>> THEN vec
    ELSE LET test == Head(rest)
             expanded == Test(bin_name(Len(vec)), test, None)
         IN IF contains(to_str(test.path), <<"*">>)
            THEN LET globbed == glob(test.path)
                 IN IF globbed.ok
                    THEN expand_globs_loop(Tail(rest),
                             push_paths(globbed.paths, test.expected, vec))
                    ELSE expand_globs_loop(Tail(rest),
                             Append(vec, [expanded EXCEPT
                                            !.error = Some("Pattern")]))
            ELSE expand_globs_loop(Tail(rest), Append(vec, expanded))

expand_globs(tests) == expand_globs_loop(tests, <<>>)

\* The filters of the command line: what follows "trybuild=" in the
\* arguments that start with it and are longer than it.
filters(args) ==
    LET chosen == SelectSeq(args, LAMBDA arg :
                      starts_with(arg, PREFIX) /\ arg /= PREFIX)
    IN [i \in 1..Len(chosen) |-> Tail_from(chosen[i], Len(PREFIX) + 1)]

\* fn filter of run.rs.
filter_tests(tests, args) ==
    IF filters(args) = <<>> THEN tests
    ELSE SelectSeq(tests, LAMBDA t :
             \E i \in 1..Len(filters(args)) :
                 contains(to_str(t.spec.path), filters(args)[i]))

(***************************************************************************)
(* Results and errors (crate::error::Error).                               *)
(***************************************************************************)
Ok == "Ok"
Err(error) == error

IO_ERRORS == {"Io", "ReadStderr", "WriteStderr"}

\* What a check returns: the result, the file system it leaves and the
\* messages it printed.
Outcome(result, fs, messages) ==
    [result |-> result, fs |-> fs, messages |-> messages]

\* fn check_exists.
check_exists(path) == IF path \in SOURCE_FILES THEN Ok ELSE Err("Open")

\* A variant of write_wip that appends to the file in the wip directory.
write_wip_append(stderr_path, new, fs) ==
    LET wip_path == join(WIP_DIR, file_name(stderr_path))
    IN UNION {
         IF ~d.ok THEN {Outcome(Err("Io"), d.fs, <<>>)}
         ELSE UNION {
           IF ~g.ok THEN {Outcome(Err("Io"), g.fs, <<>>)}
           ELSE {Outcome(IF w.ok THEN Ok ELSE Err("WriteStderr"), w.fs,
                         <<"write_stderr_wip">>)
                 : w \in write(g.fs, wip_path,
                                  IF exists(g.fs, wip_path)
                                  THEN g.fs.files[wip_path][1] \o new
                                  ELSE new)}
           : g \in write(d.fs, GITIGNORE, GITIGNORE_TEXT)}
         : d \in create_dir_all(fs, WIP_DIR)}

\* The Update::Wip arm of check_compile_fail: the wip directory, its
\* .gitignore and the new expectation under the name of the expectation file.
write_wip(stderr_path, new, fs) ==
    LET wip_path == join(WIP_DIR, file_name(stderr_path))
    IN UNION {
         IF ~d.ok THEN {Outcome(Err("Io"), d.fs, <<>>)}
         ELSE UNION {
           IF ~g.ok THEN {Outcome(Err("Io"), g.fs, <<>>)}
           ELSE {Outcome(IF w.ok THEN Ok ELSE Err("WriteStderr"), w.fs,
                         <<"write_stderr_wip">>)
                 : w \in write(g.fs, wip_path, new)}
           : g \in write(d.fs, GITIGNORE, GITIGNORE_TEXT)}
         : d \in create_dir_all(fs, WIP_DIR)}

\* The Update::Overwrite arms of check_compile_fail: the new expectation
\* replaces the expectation file.
overwrite(stderr_path, new, fs) ==
    {Outcome(IF w.ok THEN Ok ELSE Err("WriteStderr"), w.fs,
             <<"overwrite_stderr">>)
     : w \in write(fs, stderr_path, new)}

\* A variant of record_new that replaces the expectation file under each
\* update policy.
record_new_overwrite(project, stderr_path, new, fs) ==
    {IF o.result = Ok
     THEN [o EXCEPT !.messages = @ \o <<"fail_output">>] ELSE o
     : o \in overwrite(stderr_path, new, fs)}

\* check_compile_fail when there is no expectation file.
record_new(project, stderr_path, new, fs) ==
    {IF o.result = Ok
     THEN [o EXCEPT !.messages = @ \o <<"fail_output">>] ELSE o
     : o \in IF project.update = Wip THEN write_wip(stderr_path, new, fs)
             ELSE overwrite(stderr_path, new, fs)}

\* A variant of on_mismatch with the arms of the update policies swapped.
on_mismatch_swapped(project, stderr_path, new, fs) ==
    IF project.update = Overwrite
    THEN {Outcome(Err("Mismatch"), fs, <<"mismatch">>)}
    ELSE overwrite(stderr_path, new, fs)

\* check_compile_fail when the expectation file matches no variation.
on_mismatch(project, stderr_path, new, fs) ==
    IF project.update = Wip THEN {Outcome(Err("Mismatch"), fs, <<"mismatch">>)}
    ELSE overwrite(stderr_path, new, fs)

\* A variant of compare_saved that replaces a mismatching expectation by the
\* first variation.
compare_saved_first(project, stderr_path, variations, fs) ==
    UNION {
      IF ~r.ok THEN {Outcome(Err("ReadStderr"), fs, <<>>)}
      ELSE LET expected == replace(r.text, <<"\r", "\n">>, <<"\n">>)
           IN IF matches(variations, expected)
              THEN {Outcome(Ok, fs, <<"ok">>)}
              ELSE on_mismatch(project, stderr_path, variations[1], fs)
      : r \in read_to_string(fs, stderr_path)}

\* check_compile_fail when there is an expectation file.
compare_saved(project, stderr_path, variations, fs) ==
    UNION {
      IF ~r.ok THEN {Outcome(Err("ReadStderr"), fs, <<>>)}
      ELSE LET expected == replace(r.text, <<"\r", "\n">>, <<"\n">>)
           IN IF matches(variations, expected)
              THEN {Outcome(Ok, fs, <<"ok">>)}
              ELSE on_mismatch(project, stderr_path, preferred(variations),
                               fs)
      : r \in read_to_string(fs, stderr_path)}

\* A variant of check_compile_fail that rejects a successful build under Wip
\* only.
check_compile_fail_wip(self, project, success, variations, fs) ==
    LET stderr_path == with_extension(self.path, STDERR_EXT)
    IN IF success /\ project.update = Wip
       THEN {Outcome(Err("ShouldNotHaveCompiled"), fs,
                     <<"should_not_have_compiled", "fail_output",
                       "warnings">>)}
       ELSE IF ~exists(fs, stderr_path)
       THEN record_new(project, stderr_path, preferred(variations), fs)
       ELSE compare_saved(project, stderr_path, variations, fs)

\* TestSpec::check_compile_fail: the set of its possible outcomes.
check_compile_fail(self, project, success, variations, fs) ==
    LET stderr_path == with_extension(self.path, STDERR_EXT)
    IN IF success
       THEN {Outcome(Err("ShouldNotHaveCompiled"), fs,
                     <<"should_not_have_compiled", "fail_output",
                       "warnings">>)}
       ELSE IF ~exists(fs, stderr_path)
       THEN record_new(project, stderr_path, preferred(variations), fs)
       ELSE compare_saved(project, stderr_path, variations, fs)

(***************************************************************************)
(* The state of a run of Runner::run.                                      *)
(***************************************************************************)
VARIABLES
    declared,   \* self.tests: the declared test specs
    args,       \* env::args_os
    project,    \* the Project: update, self_test, has_pass, has_compile_fail
    fs,         \* the file system
    tests,      \* the expanded and filtered tests
    pc,         \* where the run is
    idx,        \* the position in tests of the test being run
    failures,   \* the count of failed tests
    cur,        \* the locals of the test being run
    before,     \* the file system when the test being run started
    log,        \* what this run did, in order: begin, build, run, report
    prev,       \* the test reported last in the run before this one
    faults,     \* the count of failed system calls in this run
    round,      \* the number of this run
    fs0,        \* the file system when this run started
    panic       \* the message of the panic that ended the run, or None

vars ==
    <<declared, args, project, fs, tests, pc, idx, failures, cur, before,
      log, prev, faults,
      round, fs0, panic>>

MaxSpecs == 1
MaxFaults == 1
MaxRounds == 2

\* The sequences of at most n elements of S.
RECURSIVE SeqsUpTo(_, _)
SeqsUpTo(S, n) ==
    IF n = 0 THEN {<<>>}
    ELSE LET shorter == SeqsUpTo(S, n - 1)
         IN shorter \cup {Append(s, e) : s \in shorter, e \in S}

\* The locals of a test that has not started.
NoLocals ==
    [success |-> FALSE, stdout |-> <<>>, stderr |-> <<>>, variations |-> <<>>,
     built |-> FALSE, output |-> None, result |-> Ok, messages |-> <<>>,
     shown |-> <<>>]

InitWith(declarations) ==
    /\ declared \in declarations
    /\ args \in COMMAND_LINES
    /\ \E update \in {Wip, Overwrite}, self_test \in BOOLEAN :
           project = [source_dir |-> SOURCE_DIR, workspace |-> WORKSPACE,
                      update |-> update, has_pass |-> FALSE,
                      has_compile_fail |-> FALSE, self_test |-> self_test]
    /\ \E saved \in [stderr_paths -> {None} \cup {Some(t) : t \in SAVED_TEXTS}] :
           /\ \A p \in stderr_paths :
                  saved[p] /= None =>
                      \E i \in 1..Len(expand_globs(declared)) :
                          with_extension(expand_globs(declared)[i].spec.path,
                                         STDERR_EXT) = p
           /\ fs = [files |-> [p \in FILE_PATHS |->
                                 IF p \in stderr_paths THEN saved[p] ELSE None],
                    dirs |-> SOURCE_DIRS]
    /\ tests = <<>>
    /\ pc = "start"
    /\ idx = 0
    /\ failures = 0
    /\ cur = NoLocals
    /\ before = fs
    /\ log = <<>>
    /\ prev = None
    /\ faults = 0
    /\ round = 1
    /\ fs0 = fs
    /\ panic = None

Init == InitWith(SeqsUpTo(DECLARABLE, MaxSpecs))

\* A variant of splice that puts the build's stdout at the end.
splice_append(stdout, build_stdout) == stdout \o build_stdout

\* Vec::splice(..0, build_stdout): the build's stdout goes in front.
splice(stdout, build_stdout) == build_stdout \o stdout

\* The last lines of check_pass: the exit status of the run decides.
run_result(output) == IF output.success THEN Ok ELSE Err("RunFailed")

\* A variant of test that takes the tests from the last to the first.
test_backwards == tests[Len(tests) + 1 - idx]

\* The test being run.
test == tests[idx]

\* The texts the compiler of the model prints, and the contexts of the tests
\* of a project in the model's directories.
COMPILER_STDERRS == {output.stderr : output \in BUILD_OUTPUTS}

TEST_CONTEXTS ==
    {Context(bin_name(i), SOURCE_DIR, WORKSPACE) :
        i \in 0..(MaxSpecs * Cardinality(SOURCE_FILES))}

\* The variations of these texts in these contexts, computed once.
COMPILER_VARIATIONS ==
    [context \in TEST_CONTEXTS |->
        [stderr \in COMPILER_STDERRS |-> Variations(stderr, context)]]

\* TestSpec::run: the compiler's stderr, normalized in the context of the
\* test that is run.
normalize(stderr) ==
    LET context ==
            Context(test.name, project.source_dir, project.workspace)
    IN IF context \in TEST_CONTEXTS /\ stderr \in COMPILER_STDERRS
       THEN COMPILER_VARIATIONS[context][stderr]
       ELSE Variations(stderr, context)

\* An entry of the log: what was done for which test, and for a report the
\* result of the test.
Event(name, event, result) == [name |-> name, event |-> event, result |-> result]

\* What no step of a test changes.
run_vars == <<declared, args, project, tests, idx, failures, prev, round,
              fs0, panic>>

\* Runner::run up to the loop: expand, filter, prepare, count the kinds.
RunnerStart ==
    /\ pc = "start"
    /\ LET expanded == filter_tests(expand_globs(declared), args)
       IN \/ \* strategy.prepare fails: "tests failed"
             /\ pc' = "panicked"
             /\ panic' = Some(<<"tests failed">>)
             /\ UNCHANGED <<tests, project, idx, cur>>
          \/ /\ tests' = expanded
             /\ project' =
                  [project EXCEPT
                     !.has_pass = \E i \in 1..Len(expanded) :
                                      expanded[i].spec.expected = Pass,
                     !.has_compile_fail =
                         \E i \in 1..Len(expanded) :
                             expanded[i].spec.expected = CompileFail]
             /\ IF expanded = <<>>
                THEN /\ pc' = "finish"
                     /\ cur' = [cur EXCEPT !.messages = <<"no_tests_enabled">>]
                     /\ idx' = idx
                ELSE /\ pc' = "test"
                     /\ idx' = 1
                     /\ cur' = cur
             /\ panic' = panic
    /\ UNCHANGED <<declared, args, fs, failures, before, log, prev, round,
                   fs0, faults>>

\* A variant of TestBegin that does not look at the error of the test.
TestBegin_any ==
    /\ pc = "test"
    /\ before' = fs
    /\ log' = Append(log, Event(test.name, "begin", Ok))
    /\ cur' = [NoLocals EXCEPT !.messages = <<"begin_test">>]
    /\ pc' = "build"
    /\ UNCHANGED <<run_vars, fs, faults>>

\* Test::run, and TestSpec::run up to check_exists.
TestBegin ==
    /\ pc = "test"
    /\ before' = fs
    /\ log' = Append(log, Event(test.name, "begin", Ok))
    /\ IF test.error /= None
       THEN /\ cur' = [NoLocals EXCEPT !.result = Err(test.error[1]),
                                       !.messages = <<"begin_test">>]
            /\ pc' = "report"
       ELSE IF check_exists(test.spec.path) /= Ok
       THEN /\ cur' = [NoLocals EXCEPT !.result = check_exists(test.spec.path),
                                       !.messages = <<"begin_test">>]
            /\ pc' = "report"
       ELSE /\ cur' = [NoLocals EXCEPT !.messages = <<"begin_test">>]
            /\ pc' = "build"
    /\ UNCHANGED <<run_vars, fs, faults>>

\* TestSpec::run: the build of the test and the normalization of its stderr.
Build ==
    /\ pc = "build"
    /\ log' = Append(log, Event(test.name, "build", Ok))
    /\ \/ \* the build could not be invoked: Error::Cargo
          /\ faults < MaxFaults
          /\ faults' = faults + 1
          /\ cur' = [cur EXCEPT !.result = Err("Cargo")]
          /\ pc' = "report"
       \/ \E output \in BUILD_OUTPUTS :
            /\ cur' = [cur EXCEPT
                         !.built = TRUE,
                         !.success = output.success,
                         !.stdout = output.stdout,
                         !.stderr = output.stderr,
                         !.variations = normalize(output.stderr)]
            /\ pc' = "check"
            /\ faults' = faults
    /\ UNCHANGED <<run_vars, fs, before>>

\* A variant of CheckPass that runs the test whatever its build gave.
CheckPass_runs ==
    /\ pc = "check"
    /\ test.spec.expected = Pass
    /\ pc' = "run"
    /\ cur' = cur
    /\ UNCHANGED <<run_vars, fs, before, faults, log>>

\* TestSpec::check_pass up to the run of the test.
CheckPass ==
    /\ pc = "check"
    /\ test.spec.expected = Pass
    /\ IF ~cur.success
       THEN /\ cur' = [cur EXCEPT !.result = Err("CargoFail"),
                                  !.messages = @ \o <<"failed_to_build">>]
            /\ pc' = "report"
       ELSE /\ pc' = "run"
            /\ cur' = cur
    /\ UNCHANGED <<run_vars, fs, before, faults, log>>

\* TestSpec::check_pass from the run of the test on.
Run ==
    /\ pc = "run"
    /\ log' = Append(log, Event(test.name, "run", Ok))
    /\ \/ \* the test could not be invoked: Error::Cargo
          /\ faults < MaxFaults
          /\ faults' = faults + 1
          /\ cur' = [cur EXCEPT !.result = Err("Cargo")]
          /\ pc' = "report"
       \/ \E output \in RUN_OUTPUTS :
            /\ cur' = [cur EXCEPT
                         !.output = Some(output),
                         !.result = run_result(output),
                         !.messages = @ \o <<"output">>,
                         !.shown = splice(output.stdout, cur.stdout)]
            /\ pc' = "report"
            /\ faults' = faults
    /\ UNCHANGED <<run_vars, fs, before>>

\* TestSpec::check_compile_fail.
CheckCompileFail ==
    /\ pc = "check"
    /\ test.spec.expected = CompileFail
    /\ \E outcome \in check_compile_fail(test.spec, project, cur.success,
                                         cur.variations, fs) :
         /\ IF outcome.result \in IO_ERRORS
            THEN faults < MaxFaults /\ faults' = faults + 1
            ELSE faults' = faults
         /\ fs' = outcome.fs
         /\ cur' = [cur EXCEPT !.result = outcome.result,
                               !.messages = @ \o outcome.messages]
         /\ pc' = "report"
    /\ UNCHANGED <<run_vars, before, log>>

\* A variant of Report that leaves the loop at the first failure.
Report_stops ==
    /\ pc = "report"
    /\ failures' = IF cur.result /= Ok THEN failures + 1 ELSE failures
    /\ log' = Append(log, Event(test.name, "report", cur.result))
    /\ cur' = cur
    /\ IF idx < Len(tests) /\ cur.result = Ok
       THEN /\ idx' = idx + 1
            /\ pc' = "test"
       ELSE /\ idx' = idx
            /\ pc' = "finish"
    /\ UNCHANGED <<declared, args, project, fs, tests, before, prev, round,
                   fs0, panic, faults>>

\* A variant of Report that ends the run when cargo could not be spawned.
Report_fatal ==
    /\ pc = "report"
    /\ failures' = IF cur.result /= Ok THEN failures + 1 ELSE failures
    /\ log' = Append(log, Event(test.name, "report", cur.result))
    /\ cur' = cur
    /\ idx' = IF idx < Len(tests) /\ cur.result /= Err("Cargo")
              THEN idx + 1 ELSE idx
    /\ pc' = IF cur.result = Err("Cargo") THEN "panicked"
             ELSE IF idx < Len(tests) THEN "test" ELSE "finish"
    /\ UNCHANGED <<declared, args, project, fs, tests, before, prev, round,
                   fs0, panic, faults>>

\* The body of the loop of Runner::run after test.run returned.
Report ==
    /\ pc = "report"
    /\ failures' = IF cur.result /= Ok THEN failures + 1 ELSE failures
    /\ log' = Append(log, Event(test.name, "report", cur.result))
    /\ cur' = cur
    /\ IF idx < Len(tests)
       THEN /\ idx' = idx + 1
            /\ pc' = "test"
       ELSE /\ idx' = idx
            /\ pc' = "finish"
    /\ UNCHANGED <<declared, args, project, fs, tests, before, prev, round,
                   fs0, panic, faults>>

\* A variant of RunnerFinish that panics in self-test mode too.
RunnerFinish_strict ==
    /\ pc = "finish"
    /\ IF failures > 0
       THEN /\ pc' = "panicked"
            /\ panic' = Some(<<failures, Len(tests)>>)
       ELSE /\ pc' = "done"
            /\ panic' = panic
    /\ UNCHANGED <<declared, args, project, fs, tests, idx, failures, cur,
                   before, log, prev, round, fs0, faults>>

\* The end of Runner::run.
RunnerFinish ==
    /\ pc = "finish"
    /\ IF failures > 0 /\ ~project.self_test
       THEN /\ pc' = "panicked"
            /\ panic' = Some(<<failures, Len(tests)>>)
       ELSE /\ pc' = "done"
            /\ panic' = panic
    /\ UNCHANGED <<declared, args, project, fs, tests, idx, failures, cur,
                   before, log, prev, round, fs0, faults>>

\* The test function is run again: same declared tests, same command line,
\* same update policy, and the files the run before left.
Rerun ==
    /\ pc \in {"done", "panicked"}
    /\ round < MaxRounds
    /\ round' = round + 1
    /\ prev' = IF tests = <<>> \/ panic = Some(<<"tests failed">>) THEN None
                ELSE Some([test |-> test, locals |-> cur, before |-> before,
                           after |-> fs])
    /\ faults' = 0
    /\ log' = <<>>
    /\ fs0' = fs
    /\ tests' = <<>>
    /\ pc' = "start"
    /\ idx' = 0
    /\ failures' = 0
    /\ cur' = NoLocals
    /\ panic' = None
    /\ UNCHANGED <<declared, args, project, fs, before>>

Next ==
    \/ RunnerStart
    \/ TestBegin
    \/ Build
    \/ CheckPass
    \/ Run
    \/ CheckCompileFail
    \/ Report
    \/ RunnerFinish

Spec == Init /\ [][Next]_vars

\* The runs of one test, again and again.
InitRerun ==
    InitWith({<<spec>> : spec \in {s \in DECLARABLE :
                                      ~contains(to_str(s.path), <<"*">>)}})

NextRerun == Next \/ Rerun

SpecRerun == InitRerun /\ [][NextRerun]_vars

\* The runs of tests whose source files have the same file name.
InitSameName == InitWith(SeqsUpTo(SAME_NAMED, MaxSpecs))

SpecSameName == InitSameName /\ [][Next]_vars

(***************************************************************************)
(* The first two statements of Runner::run on their own: expand_globs and  *)
(* filter, for longer lists of declared specs.                             *)
(***************************************************************************)
MaxDeclared == 3

InitExpand ==
    /\ declared \in SeqsUpTo(DECLARABLE, MaxDeclared)
    /\ args \in COMMAND_LINES
    /\ project = [source_dir |-> SOURCE_DIR, workspace |-> WORKSPACE,
                  update |-> Wip, has_pass |-> FALSE,
                  has_compile_fail |-> FALSE, self_test |-> FALSE]
    /\ fs = [files |-> [p \in FILE_PATHS |-> None], dirs |-> SOURCE_DIRS]
    /\ tests = <<>>
    /\ pc = "declared"
    /\ idx = 0
    /\ failures = 0
    /\ cur = NoLocals
    /\ before = fs
    /\ log = <<>>
    /\ prev = None
    /\ faults = 0
    /\ round = 1
    /\ fs0 = fs
    /\ panic = None

\* let mut tests = expand_globs(&self.tests);
ExpandGlobs ==
    /\ pc = "declared"
    /\ tests' = expand_globs(declared)
    /\ pc' = "expanded"
    /\ UNCHANGED <<declared, args, project, fs, idx, failures, cur, before,
                   log, prev, faults, round, fs0, panic>>

\* filter(&mut tests);
Filter ==
    /\ pc = "expanded"
    /\ tests' = filter_tests(tests, args)
    /\ pc' = "filtered"
    /\ UNCHANGED <<declared, args, project, fs, idx, failures, cur, before,
                   log, prev, faults, round, fs0, panic>>

NextExpand == ExpandGlobs \/ Filter

SpecExpand == InitExpand /\ [][NextExpand]_vars

(***************************************************************************)
(* Pieces of compiler output: lines with their line ending, and one piece  *)
(* of a line without it.                                                   *)
(***************************************************************************)
CHUNK_EMPTY ==
    <<"\n">>
CHUNK_ERROR ==
    <<"e", "r", "r", "o", "r", ":", " ", "E", "0", " ", "\n">>
CHUNK_UNTERMINATED ==
    <<"n", "o", "t", "e", ":", " ", "n">>
CHUNK_ABORTING ==
    <<"e", "r", "r", "o", "r", ":", " ", "a", "b", "o", "r", "t", "i", "n",
      "g", " ", "d", "u", "e", " ", "t", "o", " ", "2", " ", "p", "r", "e",
      "v", "i", "o", "u", "s", " ", "e", "r", "r", "o", "r", "s", "\n">>
CHUNK_TO_LEARN_MORE ==
    <<"T", "o", " ", "l", "e", "a", "r", "n", " ", "m", "o", "r", "e", ",",
      " ", "r", "u", "n", " ", "t", "h", "e", " ", "c", "o", "m", "m", "a",
      "n", "d", " ", "a", "g", "a", "i", "n", " ", "w", "i", "t", "h", " ",
      "-", "-", "v", "e", "r", "b", "o", "s", "e", ".", "\n">>
CHUNK_SCENARIO_A ==
    <<"-", "-", ">", " ", "/", "h", "o", "m", "e", "/", "u", "/", "p", "r",
      "o", "j", "/", "s", "r", "c", "/", "l", "i", "b", ".", "r", "s", ":",
      "3", ":", "5", "\n">>
CHUNK_ARROW_CRATE ==
    <<"-", "-", ">", " ", "/", "w", "/", "c", "/", "t", "r", "y", "b", "u",
      "i", "l", "d", "0", "0", "0", ".", "r", "s", ":", "1", ":", "1", " ",
      "\n">>
CHUNK_ARROW_CR ==
    <<"-", "-", ">", " ", "s", "r", "c", "\\", "a", ".", "r", "s", "\r",
      "\r", "\n">>
CHUNK_ARROW_BARE ==
    <<"-", "-", ">", " ", "l", "i", "b", ".", "r", "s", "\n">>
CHUNK_COLONS ==
    <<":", ":", ":", " ", "\\", "w", "\\", "x", "\n">>
CHUNK_RUSTLIB ==
    <<":", ":", ":", " ", "/", "r", "/", "r", "u", "s", "t", "l", "i", "b",
      "/", "s", "r", "c", "/", "r", "u", "s", "t", "/", "s", "r", "c", "/",
      "l", ".", "r", "s", "\n">>
CHUNK_COULD_NOT ==
    <<"e", "r", "r", "o", "r", ":", " ", "c", "o", "u", "l", "d", " ", "n",
      "o", "t", " ", "c", "o", "m", "p", "i", "l", "e", " ", BACKTICK, "t", "r",
      "y", "b", "u", "i", "l", "d", "0", "0", "0", BACKTICK, "\n">>
CHUNK_BACKSLASH ==
    <<"i", "n", " ", "/", "w", "/", "c", "\\", "m", ".", "r", "s", "\n">>

(***************************************************************************)
(* The normalization on its own: the stderr of a build is any text made    *)
(* of at most MaxChunks pieces, normalized in the context of the test as   *)
(* TestSpec::run does, and the preferred variation normalized again.       *)
(***************************************************************************)
MaxChunks == 2

CHUNKS ==
    {CHUNK_EMPTY, CHUNK_ERROR, CHUNK_UNTERMINATED, CHUNK_ABORTING,
     CHUNK_TO_LEARN_MORE, CHUNK_SCENARIO_A, CHUNK_ARROW_CRATE,
     CHUNK_ARROW_CR, CHUNK_ARROW_BARE, CHUNK_COLONS, CHUNK_RUSTLIB,
     CHUNK_COULD_NOT, CHUNK_BACKSLASH}

RECURSIVE concat(_)
concat(chunks) ==
    IF chunks = <<>> THEN <<>> ELSE Head(chunks) \o concat(Tail(chunks))

\* The directories of the project: those of the model's project, or the
\* empty paths of Project::new.
DIRECTORIES ==
    {[source_dir |-> SOURCE_DIR, workspace |-> WORKSPACE],
     [source_dir |-> <<>>, workspace |-> <<>>]}

InitNorm ==
    /\ declared = <<TestSpec(T_A_RS, CompileFail)>>
    /\ args = <<ARG_TEST_NAME>>
    /\ \E dirs \in DIRECTORIES :
           project = [source_dir |-> dirs.source_dir,
                      workspace |-> dirs.workspace,
                      update |-> Wip, has_pass |-> FALSE,
                      has_compile_fail |-> TRUE, self_test |-> FALSE]
    /\ fs = [files |-> [p \in FILE_PATHS |-> None], dirs |-> SOURCE_DIRS]
    /\ tests = expand_globs(declared)
    /\ pc = "raw"
    /\ idx = 1
    /\ failures = 0
    /\ \E chunks \in SeqsUpTo(CHUNKS, MaxChunks) :
           cur = [NoLocals EXCEPT !.built = TRUE, !.stderr = concat(chunks)]
    /\ before = fs
    /\ log = <<>>
    /\ prev = None
    /\ faults = 0
    /\ round = 1
    /\ fs0 = fs
    /\ panic = None

\* The call of normalize in TestSpec::run.
Normalize ==
    /\ pc = "raw"
    /\ cur' = [cur EXCEPT !.variations = normalize(cur.stderr)]
    /\ pc' = "normalized"
    /\ UNCHANGED <<declared, args, project, fs, tests, idx, failures, before,
                   log, prev, faults, round, fs0, panic>>

\* The preferred variation is given to normalize as a build's stderr.
Renormalize ==
    /\ pc = "normalized"
    /\ prev' = Some(cur)
    /\ cur' = [cur EXCEPT
                 !.stderr = preferred(cur.variations),
                 !.variations = normalize(preferred(cur.variations))]
    /\ pc' = "renormalized"
    /\ UNCHANGED <<declared, args, project, fs, tests, idx, failures, before,
                   log, faults, round, fs0, panic>>

NextNorm == Normalize \/ Renormalize

SpecNorm == InitNorm /\ [][NextNorm]_vars

(***************************************************************************)
(* Lines of compiler output, without their line ending.                    *)
(***************************************************************************)
LINE_ERROR ==
    <<"e", "r", "r", "o", "r", ":", " ", "E", "0", " ">>
LINE_ABORTING ==
    <<"e", "r", "r", "o", "r", ":", " ", "a", "b", "o", "r", "t", "i", "n",
      "g", " ", "d", "u", "e", " ", "t", "o", " ", "2", " ", "p", "r", "e",
      "v", "i", "o", "u", "s", " ", "e", "r", "r", "o", "r", "s">>
LINE_ABORTING_INDENTED ==
    <<" ", " ", "e", "r", "r", "o", "r", ":", " ", "a", "b", "o", "r", "t",
      "i", "n", "g", " ", "d", "u", "e", " ", "t", "o", " ", "1", " ", "p",
      "r", "e", "v", "i", "o", "u", "s", " ", "e", "r", "r", "o", "r">>
LINE_TO_LEARN_MORE ==
    <<"T", "o", " ", "l", "e", "a", "r", "n", " ", "m", "o", "r", "e", ",",
      " ", "r", "u", "n", " ", "t", "h", "e", " ", "c", "o", "m", "m", "a",
      "n", "d", " ", "a", "g", "a", "i", "n", " ", "w", "i", "t", "h", " ",
      "-", "-", "v", "e", "r", "b", "o", "s", "e", ".">>
LINE_COULD_NOT ==
    <<"e", "r", "r", "o", "r", ":", " ", "C", "o", "u", "l", "d", " ", "n",
      "o", "t", " ", "c", "o", "m", "p", "i", "l", "e", " ", BACKTICK, "t", BACKTICK,
      ".">>
LINE_COULD_NOT2 ==
    <<"e", "r", "r", "o", "r", ":", " ", "c", "o", "u", "l", "d", " ", "n",
      "o", "t", " ", "c", "o", "m", "p", "i", "l", "e", " ", BACKTICK, "t", BACKTICK,
      ".">>
LINE_FOR_MORE ==
    <<"F", "o", "r", " ", "m", "o", "r", "e", " ", "i", "n", "f", "o", "r",
      "m", "a", "t", "i", "o", "n", " ", "a", "b", "o", "u", "t", " ", "t",
      "h", "i", "s", " ", "e", "r", "r", "o", "r", ",", " ", "t", "r", "y",
      " ", BACKTICK, "r", "u", "s", "t", "c", " ", "-", "-", "e", "x", "p", "l",
      "a", "i", "n", " ", "E", "0", BACKTICK, ".">>
LINE_SOME_ERRORS ==
    <<"S", "o", "m", "e", " ", "e", "r", "r", "o", "r", "s", " ", "h", "a",
      "v", "e", " ", "d", "e", "t", "a", "i", "l", "e", "d", " ", "e", "x",
      "p", "l", "a", "n", "a", "t", "i", "o", "n", "s", ":", " ", "E", "0",
      ",", " ", "E", "1", ".">>
LINE_FOR_MORE2 ==
    <<"F", "o", "r", " ", "m", "o", "r", "e", " ", "i", "n", "f", "o", "r",
      "m", "a", "t", "i", "o", "n", " ", "a", "b", "o", "u", "t", " ", "a",
      "n", " ", "e", "r", "r", "o", "r", ",", " ", "t", "r", "y", " ", BACKTICK,
      "r", "u", "s", "t", "c", " ", "-", "-", "e", "x", "p", "l", "a", "i",
      "n", " ", "E", "0", BACKTICK, ".">>
LINE_CRATE ==
    <<"i", "n", " ", "t", "r", "y", "b", "u", "i", "l", "d", "0", "0", "0",
      " ", "a", "t", " ", "/", "w", "/", "c", "\\", "m", ".", "r", "s">>
LINE_ARROW ==
    <<"-", "-", ">", " ", "/", "w", "/", "c", "/", "t", "/", "a", ".", "r",
      "s", ":", "1", ":", "1">>
LINE_ARROW_INDENTED ==
    <<" ", " ", "-", "-", ">", " ", "/", "w", "/", "c", "/", "t", "/", "a",
      ".", "r", "s", ":", "1", ":", "1">>
LINE_ARROW_BARE ==
    <<"-", "-", ">", " ", "l", "i", "b", ".", "r", "s">>
LINE_COLONS ==
    <<" ", " ", ":", ":", ":", " ", "\\", "w", "\\", "x">>

(***************************************************************************)
(* The line filter on its own: one line of compiler output is given to     *)
(* filter at each level in the order of VARIATIONS, in the context of a    *)
(* test; log holds what filter returned at the levels so far.              *)
(***************************************************************************)
LINES ==
    {<<>>, LINE_ERROR, LINE_ABORTING, LINE_ABORTING_INDENTED,
     LINE_TO_LEARN_MORE, LINE_COULD_NOT, LINE_COULD_NOT2, LINE_FOR_MORE,
     LINE_SOME_ERRORS, LINE_FOR_MORE2, LINE_CRATE, LINE_ARROW,
     LINE_ARROW_INDENTED, LINE_ARROW_BARE, LINE_COLONS}

\* The contexts: that of the first test of the model's project, that of a
\* project without directories, and the context whose fields are all empty.
CONTEXTS ==
    {Context(bin_name(0), SOURCE_DIR, WORKSPACE),
     Context(bin_name(0), <<>>, <<>>),
     Context(<<>>, <<>>, <<>>)}

InitFilter ==
    /\ declared = <<TestSpec(T_A_RS, CompileFail)>>
    /\ args = <<ARG_TEST_NAME>>
    /\ \E context \in CONTEXTS :
           /\ project = [source_dir |-> context.source_dir,
                         workspace |-> context.workspace,
                         update |-> Wip, has_pass |-> FALSE,
                         has_compile_fail |-> TRUE, self_test |-> FALSE]
           /\ tests = <<Test(context.krate, declared[1], None)>>
    /\ fs = [files |-> [p \in FILE_PATHS |-> None], dirs |-> SOURCE_DIRS]
    /\ pc = "line"
    /\ idx = 1
    /\ failures = 0
    /\ \E line \in LINES : cur = [NoLocals EXCEPT !.stderr = line]
    /\ before = fs
    /\ log = <<>>
    /\ prev = None
    /\ faults = 0
    /\ round = 1
    /\ fs0 = fs
    /\ panic = None

\* The call of filter in the loop of apply, at the next level.
FilterLine ==
    /\ pc = "line"
    /\ Len(log) < Len(VARIATIONS)
    /\ log' = Append(log,
                     filter(cur.stderr, VARIATIONS[Len(log) + 1],
                            Context(test.name, project.source_dir,
                                    project.workspace)))
    /\ UNCHANGED <<declared, args, project, fs, tests, pc, idx, failures,
                   cur, before, prev, faults, round, fs0, panic>>

NextFilter == FilterLine

SpecFilter == InitFilter /\ [][NextFilter]_vars

(***************************************************************************)
(* Properties.  In a state with pc = "report" the test being run has       *)
(* returned: cur holds its locals and its result, before the file system   *)
(* when it started, fs the file system it left.                            *)
(***************************************************************************)
TypeOK ==
    /\ pc \in {"start", "test", "build", "check", "run", "report", "finish",
               "done", "panicked", "declared", "expanded", "filtered",
               "raw", "normalized", "renormalized", "line"}
    /\ failures \in 0..Len(tests)
    /\ faults \in 0..MaxFaults
    /\ round \in 1..MaxRounds

Has(seq, x) == \E i \in 1..Len(seq) : seq[i] = x

\* The expectation file of the test being run, its file in the wip
\* directory, and the variation of its stderr at a level.
stderr_path == with_extension(test.spec.path, STDERR_EXT)
wip_path == Path(WIP_DIR, test.spec.path.stem, STDERR_EXT)
variation(normalization) == cur.variations[normalization + 1]

\* The test being run has returned, it expects a compile failure, and its
\* build ran and failed.
CompileFailBuildFailed ==
    /\ pc = "report"
    /\ test.spec.expected = CompileFail
    /\ cur.built
    /\ ~cur.success

\* The saved expectation as the test read it: CRLF line endings made LF.
saved == replace(before.files[stderr_path][1], <<"\r", "\n">>, <<"\n">>)

\* The saved expectation is one of the eight variations.
SavedIsVariation ==
    \E normalization \in Basic..RustLib : variation(normalization) = saved

\* C1: under the Wip policy no expectation file (<test path>.stderr) is
\* created, modified or removed by a run, whatever the tests and their
\* results: the expectation files are as they were when the run started.
C1_WipKeepsExpectationFiles ==
    project.update = Wip =>
        \A path \in stderr_paths : fs.files[path] = fs0.files[path]

\* A Wip run has ended that had an expectation file and wrote a new one
\* into the wip directory.
C1_Witness ==
    /\ project.update = Wip
    /\ pc \in {"done", "panicked"}
    /\ \E path \in stderr_paths : fs0.files[path] /= None
    /\ \E path \in FILE_PATHS \ stderr_paths :
           /\ path /= GITIGNORE
           /\ fs.files[path] /= None
           /\ fs.files[path] /= Some(<<>>)

\* C2: a CompileFail test whose build exits with success returns
\* ShouldNotHaveCompiled, under each update policy and with or without an
\* expectation file, and writes no file.
C2_ShouldNotHaveCompiled ==
    (/\ pc = "report"
     /\ test.spec.expected = CompileFail
     /\ cur.built
     /\ cur.success)
    => /\ cur.result = Err("ShouldNotHaveCompiled")
       /\ fs = before

\* Such a test has returned under Overwrite, with an expectation file.
C2_Witness ==
    /\ pc = "report"
    /\ test.spec.expected = CompileFail
    /\ cur.built
    /\ cur.success
    /\ project.update = Overwrite
    /\ before.files[stderr_path] /= None

\* C3: a CompileFail test whose build fails and that has no expectation
\* file, under Wip and with no system call failing: the wip directory holds
\* the .gitignore "*" and, under the name of the expectation file, exactly
\* the variation of the last level, RustLib; there is still no expectation
\* file; the test returns Ok.
C3_WipRecordsPending ==
    (/\ CompileFailBuildFailed
     /\ project.update = Wip
     /\ before.files[stderr_path] = None
     /\ cur.result \notin IO_ERRORS)
    => /\ cur.result = Ok
       /\ WIP_DIR \in fs.dirs
       /\ fs.files[wip_path] = Some(variation(RustLib))
       /\ fs.files[GITIGNORE] = Some(GITIGNORE_TEXT)
       /\ fs.files[stderr_path] = None
       /\ \A path \in FILE_PATHS \ {wip_path, GITIGNORE} :
              fs.files[path] = before.files[path]

\* Such a test has returned, and the variations of its stderr differ.
C3_Witness ==
    /\ CompileFailBuildFailed
    /\ project.update = Wip
    /\ before.files[stderr_path] = None
    /\ cur.result = Ok
    /\ variation(RustLib) /= variation(Basic)

\* C4: a CompileFail test whose build fails and whose expectation file, as
\* read, is none of the variations, with no system call failing: under Wip
\* it returns Mismatch and no file changes; under Overwrite the expectation
\* file becomes the variation of the last level and the test returns Ok.
C4_MismatchByPolicy ==
    (/\ CompileFailBuildFailed
     /\ before.files[stderr_path] /= None
     /\ cur.result \notin IO_ERRORS
     /\ ~SavedIsVariation)
    => IF project.update = Wip
       THEN /\ cur.result = Err("Mismatch")
            /\ fs = before
       ELSE /\ cur.result = Ok
            /\ fs = [before EXCEPT
                       !.files[stderr_path] = Some(variation(RustLib))]

\* Such a test has returned under Wip; and under Overwrite.
C4_Witness ==
    /\ CompileFailBuildFailed
    /\ before.files[stderr_path] /= None
    /\ cur.result \notin IO_ERRORS
    /\ ~SavedIsVariation
    /\ project.update = Overwrite
    /\ fs /= before

\* C5: a CompileFail test whose build fails and whose expectation file
\* could be read: the test prints "ok" (the saved text matched) exactly when
\* the saved text, with CRLF made LF, is one of the eight variations, of any
\* level; and then it returns Ok under each policy and writes no file.
C5_MatchesAnyVariation ==
    (/\ CompileFailBuildFailed
     /\ before.files[stderr_path] /= None
     /\ cur.result /= Err("ReadStderr"))
    => /\ Has(cur.messages, "ok") <=> SavedIsVariation
       /\ SavedIsVariation => cur.result = Ok /\ fs = before

\* Such a test has returned: the saved text has CRLF line endings and is a
\* variation below the last level only.
C5_Witness ==
    /\ CompileFailBuildFailed
    /\ before.files[stderr_path] /= None
    /\ Has(cur.messages, "ok")
    /\ before.files[stderr_path][1] /= saved
    /\ saved /= variation(RustLib)

\* The test being run was run in the round before, and its build has given
\* the same output in both rounds.
SameBuildAgain ==
    /\ round > 1
    /\ pc = "report"
    /\ prev /= None
    /\ prev[1].test = test
    /\ prev[1].after = before
    /\ prev[1].locals.built
    /\ cur.built
    /\ prev[1].locals.success = cur.success
    /\ prev[1].locals.stdout = cur.stdout
    /\ prev[1].locals.stderr = cur.stderr

\* C6: a CompileFail test whose build failed, and which wrote a new
\* expectation (into the wip directory under Wip, as the expectation file
\* under Overwrite) and returned Ok, returns Ok when it is run again on the
\* files it left with the same compiler output and no system call failing.
C6_RoundTrip ==
    (/\ SameBuildAgain
     /\ CompileFailBuildFailed
     /\ prev[1].locals.result = Ok
     /\ \/ Has(prev[1].locals.messages, "write_stderr_wip")
        \/ Has(prev[1].locals.messages, "overwrite_stderr")
     /\ cur.result \notin IO_ERRORS)
    => cur.result = Ok

\* Such a second execution has returned, under Overwrite, of a test whose
\* first execution replaced an expectation file that did not match.
C6_Witness ==
    /\ SameBuildAgain
    /\ CompileFailBuildFailed
    /\ prev[1].locals.result = Ok
    /\ Has(prev[1].locals.messages, "overwrite_stderr")
    /\ prev[1].before.files[stderr_path] /= None
    /\ cur.result = Ok

\* C7: a test run twice in a row with the same compiler output, no system
\* call failing in either execution, leaves after the second execution the
\* files the first execution left.
C7_Idempotent ==
    (/\ SameBuildAgain
     /\ prev[1].locals.result \notin IO_ERRORS
     /\ cur.result \notin IO_ERRORS)
    => fs = prev[1].after

\* Such a second execution has returned, under Wip, of a test whose first
\* execution wrote into the wip directory.
C7_Witness ==
    /\ SameBuildAgain
    /\ prev[1].locals.result = Ok
    /\ cur.result = Ok
    /\ project.update = Wip
    /\ Has(prev[1].locals.messages, "write_stderr_wip")
    /\ Has(cur.messages, "write_stderr_wip")
    /\ prev[1].before /= prev[1].after

\* C8: a Pass test whose build succeeds: the built binary is run; when the
\* run has exited the test returns Ok exactly when the exit status is a
\* success, and RunFailed otherwise, and the stdout that is shown is the
\* build's stdout followed by the run's.
C8_PassRuns ==
    (/\ pc = "report"
     /\ test.spec.expected = Pass
     /\ cur.built
     /\ cur.success)
    => /\ log[Len(log)] = Event(test.name, "run", Ok)
       /\ cur.output /= None =>
            /\ cur.result = Ok <=> cur.output[1].success
            /\ cur.result /= Ok => cur.result = Err("RunFailed")
            /\ cur.shown = cur.stdout \o cur.output[1].stdout

\* Such a test has returned: build and run have both written to stdout, and
\* the run has exited with a failure.
C8_Witness ==
    /\ pc = "report"
    /\ test.spec.expected = Pass
    /\ cur.built
    /\ cur.success
    /\ cur.output /= None
    /\ ~cur.output[1].success
    /\ cur.stdout /= <<>>
    /\ cur.output[1].stdout /= <<>>
    /\ cur.stdout /= cur.output[1].stdout

\* The "begin" and "report" events of the log.
marks == SelectSeq(log, LAMBDA e : e.event \in {"begin", "report"})

\* The loop of Runner::run has ended.
LoopEnded == pc \in {"finish", "done"} \/ (pc = "panicked" /\ log /= <<>>)

BuildNotSpawned ==
    {i \in 2..Len(log) : /\ log[i].event = "report"
                         /\ log[i].result = Err("Cargo")
                         /\ log[i - 1].event = "build"}

\* C10 as stated: a build that cannot be spawned ends the whole run: no
\* test after that one is started.
C10_BuildErrorEndsRun == \A i \in BuildNotSpawned : i = Len(log)

\* C10, amended: a build that cannot be spawned is a failure of that test
\* only: it is counted, and the loop goes on to the next test of the list,
\* or ends normally when the test was the last.
C10_BuildErrorIsLocal ==
    \A i \in BuildNotSpawned :
        LET k == Len(SelectSeq(SubSeq(log, 1, i),
                               LAMBDA e : e.event = "report"))
        IN /\ failures >= 1
           /\ IF i < Len(log)
              THEN /\ k < Len(tests)
                   /\ log[i + 1] = Event(tests[k + 1].name, "begin", Ok)
              ELSE IF k < Len(tests) THEN pc = "test" /\ idx = k + 1
              ELSE pc \in {"finish", "done", "panicked"}
                   /\ (pc = "panicked" =>
                           panic = Some(<<failures, Len(tests)>>))

\* The build of the first of two tests could not be spawned, and the second
\* test has been reported too.
C10_Witness ==
    /\ Len(tests) = 2
    /\ Len(marks) = 4
    /\ \E i \in BuildNotSpawned : i < Len(log)

\* Runner::run has ended: it returned, or it panicked after the loop (a
\* panic of the preparation is before any test).
RunEnded ==
    \/ pc = "done"
    \/ pc = "panicked" /\ panic /= Some(<<"tests failed">>)

\* The reports of a failure, in the log.
failed == SelectSeq(log, LAMBDA e : e.event = "report" /\ e.result /= Ok)

\* C11: a test that carries an expansion error is reported with that error
\* as its result, and the report is counted (the tally is the number of
\* failures reported so far); there is neither a build nor a run of it, and
\* it leaves the files as they were.
C11_ExpansionErrorIsReported ==
    /\ failures = Len(failed)
    /\ \A i \in 1..Len(tests) :
          tests[i].error /= None =>
              /\ \A j \in 1..Len(log) :
                    log[j].name = tests[i].name =>
                        \/ log[j] = Event(tests[i].name, "begin", Ok)
                        \/ log[j] = Event(tests[i].name, "report",
                                          Err(tests[i].error[1]))
              /\ (pc = "report" /\ idx = i) =>
                    /\ cur.result = Err(tests[i].error[1])
                    /\ ~cur.built
                    /\ cur.output = None
                    /\ fs = before
              /\ (pc \in {"build", "check", "run"}) => idx /= i

\* A run has ended in which a test with an expansion error was reported
\* and counted.
C11_Witness ==
    /\ RunEnded
    /\ failures = 1
    /\ \E i \in 1..Len(tests) :
          /\ tests[i].error /= None
          /\ \E j \in 1..Len(log) :
                log[j] = Event(tests[i].name, "report", Err("Pattern"))

\* The spec is a glob that is invalid or matches no file.
fails_to_expand(spec) ==
    /\ contains(to_str(spec.path), <<"*">>)
    /\ \/ ~glob_entries(spec.path).ok
       \/ glob_entries(spec.path).paths = {}

\* C12 as stated: when an unfiltered run has ended, every declared spec
\* whose glob is invalid or matches no file has given one test that carries
\* an expansion error and was reported as a failure with it.
C12_FailedExpansionIsReported ==
    (RunEnded /\ filters(args) = <<>>) =>
        \A i \in 1..Len(declared) :
            fails_to_expand(declared[i]) =>
                \E k \in 1..Len(tests) :
                    /\ tests[k].spec = declared[i]
                    /\ tests[k].error /= None
                    /\ \E j \in 1..Len(log) :
                          log[j] = Event(tests[k].name, "report",
                                         Err(tests[k].error[1]))

\* C13: when a run has ended, the tally is the number of tests reported
\* with a failure; the run has panicked exactly when the tally is not zero
\* and the project is not in self-test mode; and a run with no test to run
\* has built and run nothing and has not panicked.
C13_FailureTally ==
    RunEnded =>
        /\ failures = Len(failed)
        /\ pc = "panicked" <=> (failures > 0 /\ ~project.self_test)
        /\ pc = "panicked" => panic = Some(<<failures, Len(tests)>>)
        /\ tests = <<>> => log = <<>> /\ pc = "done"

\* A run in self-test mode has returned with a failure and a success.
C13_Witness ==
    /\ pc = "done"
    /\ project.self_test
    /\ Len(tests) = 2
    /\ failures = 1

\* The position in the list of tests of the test of a name.
position(name) == CHOOSE i \in 1..Len(tests) : tests[i].name = name

\* C18: a test is run only directly after its own build, only if it expects
\* Pass and that build exited with success; no test is built twice or run
\* twice; a Pass test whose build failed returns CargoFail and is not run;
\* a CompileFail test is never run.
C18_RunOnlyAfterSuccessfulBuild ==
    /\ \A j \in 1..Len(log) :
          log[j].event = "run" =>
              /\ j > 1
              /\ log[j - 1] = Event(log[j].name, "build", Ok)
              /\ tests[position(log[j].name)].spec.expected = Pass
    /\ \A j, k \in 1..Len(log) :
          (/\ j < k
           /\ log[j].name = log[k].name
           /\ log[j].event \in {"build", "run"}) =>
              log[j].event /= log[k].event
    /\ (pc = "run" \/ (pc = "report" /\ log[Len(log)].event = "run")) =>
          /\ test.spec.expected = Pass
          /\ cur.built
          /\ cur.success
    /\ (/\ pc = "report"
        /\ test.spec.expected = Pass
        /\ cur.built
        /\ ~cur.success) =>
          /\ cur.result = Err("CargoFail")
          /\ log[Len(log)] = Event(test.name, "build", Ok)
          /\ cur.output = None

\* A Pass test whose build failed has returned.
C18_Witness ==
    /\ pc = "report"
    /\ test.spec.expected = Pass
    /\ cur.built
    /\ ~cur.success
    /\ cur.result = Err("CargoFail")

\* The paths in increasing order.
in_order(paths) ==
    CHOOSE s \in [1..Cardinality(paths) -> paths] :
        \A i, j \in 1..Cardinality(paths) : i < j => path_lt(s[i], s[j])

\* The paths of the tests of the specs, in the order of the declaration,
\* those of one glob in increasing order.
RECURSIVE paths_in_order(_)
paths_in_order(specs) ==
    IF specs = <<>> THEN <<>>
    ELSE LET spec == Head(specs)
             entries == glob_entries(spec.path)
         IN (IF contains(to_str(spec.path), <<"*">>) /\ entries.ok
             THEN in_order(entries.paths)
             ELSE <<spec.path>>)
            \o paths_in_order(Tail(specs))

C20_NamesByPosition ==
    pc = "expanded" =>
        /\ \A i \in 1..Len(tests) : tests[i].name = bin_name(i - 1)
        /\ \A i, j \in 1..Len(tests) :
              i /= j => tests[i].name /= tests[j].name

\* Three specs have been expanded: a glob without matches, a glob with two
\* matches and an invalid glob.
C20_Witness ==
    /\ pc = "expanded"
    /\ Len(declared) = 3
    /\ Len(tests) = 3
    /\ declared[1].path = T_NONE_RS
    /\ tests[1].spec.path = T_A_RS
    /\ tests[2].spec.path = T_B_RS
    /\ tests[3].error /= None

\* The context of the test being run, and the lines of its build's stderr.
context_of_test ==
    Context(test.name, project.source_dir, project.workspace)
raw_lines == lines(cur.stderr)

\* The variation ends with exactly one newline: a newline after a character
\* that is not white space.
one_trailing_newline(text) ==
    /\ Len(text) >= 2
    /\ text[Len(text)] = "\n"
    /\ text[Len(text) - 1] \notin WHITE_SPACE

\* The line is dropped at the level, or nothing but white space is kept.
leaves_nothing(line, normalization) ==
    LET kept == filter(line, normalization, context_of_test)
    IN kept = None \/ trim_end(kept[1]) = <<>>

\* C14 as stated: each variation of a non-empty stderr ends with exactly
\* one newline, and each variation of the empty stderr is empty.
C14_NonEmptyEndsWithNewline ==
    pc = "normalized" =>
        \A normalization \in Basic..RustLib :
            IF cur.stderr /= <<>>
            THEN one_trailing_newline(variation(normalization))
            ELSE variation(normalization) = <<>>

\* C14, amended: each variation is empty or ends with exactly one newline;
\* it is empty exactly when every line of the stderr is dropped at its
\* level or keeps nothing but white space, as for the empty stderr.
C14_EmptyOrEndsWithNewline ==
    pc = "normalized" =>
        \A normalization \in Basic..RustLib :
            /\ \/ variation(normalization) = <<>>
               \/ one_trailing_newline(variation(normalization))
            /\ variation(normalization) = <<>> <=>
                   \A i \in 1..Len(raw_lines) :
                       leaves_nothing(raw_lines[i], normalization)
            /\ cur.stderr = <<>> => variation(normalization) = <<>>

\* A stderr that is not empty has been normalized: its first variation
\* ends with one newline, its last is empty.
C14_Witness ==
    /\ pc = "normalized"
    /\ cur.stderr /= <<>>
    /\ one_trailing_newline(variation(Basic))
    /\ variation(RustLib) = <<>>

\* C15 as stated: the variation of the last level of a text that is itself
\* such a variation, in the same context, is that text.
C15_RustLibIdempotent ==
    pc = "renormalized" => variation(RustLib) = cur.stderr

\* The line starts with "error: aborting due to ", or is "To learn more,
\* run the command again with --verbose.".
boilerplate(line) ==
    \/ starts_with(line, SubSeq(CHUNK_ABORTING, 1, 23))
    \/ line = SubSeq(CHUNK_TO_LEARN_MORE, 1, Len(CHUNK_TO_LEARN_MORE) - 1)

\* C16: at each of the eight levels a line that starts with "error:
\* aborting due to " and the line "To learn more, run the command again
\* with --verbose." are dropped, so that the variations of a stderr are
\* those of the stderr without these lines, and are all empty when the
\* stderr has only such lines.
C16_BoilerplateDropped ==
    pc = "normalized" =>
        \A normalization \in Basic..RustLib :
            /\ \A i \in 1..Len(raw_lines) :
                  boilerplate(raw_lines[i]) =>
                      filter(raw_lines[i], normalization, context_of_test)
                          = None
            /\ variation(normalization)
                   = trim(apply_lines(
                            SelectSeq(raw_lines,
                                      LAMBDA line : ~boilerplate(line)),
                            <<>>, normalization, context_of_test))
            /\ (\A i \in 1..Len(raw_lines) : boilerplate(raw_lines[i])) =>
                   variation(normalization) = <<>>

\* The stderr "error: aborting due to 2 previous errors\n" has been
\* normalized.
C16_Witness ==
    /\ pc = "normalized"
    /\ cur.stderr = CHUNK_ABORTING
    /\ \A normalization \in Basic..RustLib :
           variation(normalization) = <<>>

\* The line starts with "--> " and has a path separator.
arrow_with_separator(line) ==
    /\ starts_with(line, ARROW)
    /\ \E k \in 1..Len(line) : line[k] \in {"/", "\\"}

\* What follows the last path separator of the line.
base_name(line) ==
    LET k == CHOOSE k \in 1..Len(line) :
                 /\ line[k] \in {"/", "\\"}
                 /\ \A m \in (k + 1)..Len(line) : line[m] \notin {"/", "\\"}
    IN SubSeq(line, k + 1, Len(line))

\* C17: at each level and in each context, a line that starts with "--> "
\* and has a path separator becomes "--> ", "$DIR/" and what follows its
\* last separator, with nothing else replaced or trimmed in it; so the
\* stderr "--> /home/u/proj/src/lib.rs:3:5\n" has the variations
\* "--> $DIR/lib.rs:3:5\n".
C17_ArrowLineRewritten ==
    pc = "normalized" =>
        \A normalization \in Basic..RustLib :
            /\ \A i \in 1..Len(raw_lines) :
                  arrow_with_separator(raw_lines[i]) =>
                      filter(raw_lines[i], normalization, context_of_test)
                          = Some(ARROW \o DIR_SLASH
                                 \o base_name(raw_lines[i]))
            /\ (Len(raw_lines) = 1 /\ arrow_with_separator(raw_lines[1])) =>
                   variation(normalization) =
                       trim_end(ARROW \o DIR_SLASH \o base_name(raw_lines[1]))
                       \o <<"\n">>
            /\ cur.stderr = CHUNK_SCENARIO_A =>
                   variation(normalization) =
                       <<"-", "-", ">", " ", "$", "D", "I", "R", "/", "l", "i",
                         "b", ".", "r", "s", ":", "3", ":", "5", "\n">>

\* A stderr has been normalized in the context of the model's project: its
\* first line is Scenario A's, its second a line whose base name holds the
\* name of the crate and ends with a space.
C17_Witness ==
    /\ pc = "normalized"
    /\ project.source_dir = SOURCE_DIR
    /\ cur.stderr = CHUNK_SCENARIO_A \o CHUNK_ARROW_CRATE
    /\ filter(raw_lines[2], RustLib, context_of_test)
           = Some(SubSeq(CHUNK_ARROW_CRATE, 1, 4) \o DIR_SLASH
                  \o SubSeq(CHUNK_ARROW_CRATE, 10,
                            Len(CHUNK_ARROW_CRATE) - 1))

\* The test at position j of the list was a pending new expectation of this
\* Wip run: it expects a compile failure, it was reported with Ok, and it
\* had no expectation file.  (Under Wip no expectation file is written, and
\* a CompileFail test whose build succeeded is not reported with Ok.)
pending(j) ==
    /\ project.update = Wip
    /\ tests[j].spec.expected = CompileFail
    /\ fs0.files[with_extension(tests[j].spec.path, STDERR_EXT)] = None
    /\ Has(log, Event(tests[j].name, "report", Ok))

\* The file in the wip directory named after the expectation file of the
\* test at position j.
wip_path_of(j) ==
    join(WIP_DIR, file_name(with_extension(tests[j].spec.path, STDERR_EXT)))

\* C21 as stated: under Wip, when a CompileFail test whose build failed and
\* which had no expectation file has returned Ok, the wip directory holds
\* the .gitignore and the file named after its expectation file with its
\* preferred variation; and a test that returns Ok leaves the files of the
\* pending tests reported before it as they were, so that at the end of the
\* run each pending test has its file with its own preferred variation.
C21_OneFilePerPending ==
    (pc = "report" /\ project.update = Wip /\ cur.result = Ok) =>
        /\ (CompileFailBuildFailed /\ before.files[stderr_path] = None) =>
              /\ fs.files[GITIGNORE] = Some(GITIGNORE_TEXT)
              /\ fs.files[wip_path_of(idx)] = Some(preferred(cur.variations))
        /\ \A j \in 1..(idx - 1) :
              pending(j) =>
                  fs.files[wip_path_of(j)] = before.files[wip_path_of(j)]

\* C22: filtering is monotonic over the eight levels in the order of
\* VARIATIONS: a line that filter drops at a level is dropped at the next
\* level too, in every context, so the lines that survive a level are
\* among those that survive the level before it.
C22_MonotonicFiltering ==
    pc = "line" =>
        \A k \in 1..(Len(log) - 1) : log[k] = None => log[k + 1] = None

\* A line has been filtered at the eight levels: it is kept at the first
\* two and dropped from the third on.
C22_Witness ==
    /\ pc = "line"
    /\ Len(log) = Len(VARIATIONS)
    /\ log[1] /= None
    /\ log[2] /= None
    /\ \A k \in 3..Len(log) : log[k] = None

\* The line is taken by the rule of the location arrow or by the rule of
\* the secondary location marker.
location_marker(line) ==
    \/ starts_with(trim_start(line), ARROW)
    \/ starts_with(trim_start(line), COLONS)

\* C23: when the crate name, the source directory and the workspace of the
\* context are all empty, the substitutions change no line: a line that is
\* not a location-marker line and is kept at a level below TrimEnd is
\* returned as it is, and at TrimEnd and RustLib it loses nothing but the
\* white space at its end; a line of the secondary location marker has its
\* backslashes made slashes below RustLib and no token put in.
C23_EmptyContextChangesNothing ==
    (/\ pc = "line"
     /\ test.name = <<>>
     /\ project.source_dir = <<>>
     /\ project.workspace = <<>>) =>
        \A k \in 1..Len(log) :
            /\ (~location_marker(cur.stderr) /\ log[k] /= None) =>
                   log[k] = Some(IF VARIATIONS[k] < TrimEnd THEN cur.stderr
                                 ELSE trim_end(cur.stderr))
            /\ (/\ starts_with(trim_start(cur.stderr), COLONS)
                /\ VARIATIONS[k] < RustLib) =>
                   log[k] = Some(replace(cur.stderr, <<"\\">>, <<"/">>))

\* A line with a crate name, a directory and a backslash has been filtered
\* at the eight levels in the empty context, and is kept as it is at the
\* level DirBackslash.
C23_Witness ==
    /\ pc = "line"
    /\ test.name = <<>>
    /\ project.source_dir = <<>>
    /\ project.workspace = <<>>
    /\ cur.stderr = LINE_CRATE
    /\ Len(log) = Len(VARIATIONS)
    /\ log[DirBackslash + 1] = Some(LINE_CRATE)
====
